---- MODULE Spec2Model ----
(***************************************************************************)
(* Model of the transfer_depth repository:                                 *)
(*   token_jt.py    - the continuous monitor (one task per token address,  *)
(*                    started together by asyncio.gather);                 *)
(*   token_depth.py - the one-shot interactive query.                      *)
(* Both files share the scoring functions evaluate_liquidity, assess_risk  *)
(* and standardize_score.                                                  *)
(*                                                                         *)
(* Numbers.  Python floats are modelled by exact rationals <<n, d>> in     *)
(* lowest terms with d > 0; every comparison is done by cross              *)
(* multiplication, so 4/40 > 0.1 is false and 5/40 > 0.1 is true; the      *)
(* rounding of binary floating point is not modelled.  Amounts of a quote  *)
(* are counted in whole tokens (sellAmount) and whole USDC (buyAmount),    *)
(* which is what the divisions by 1e18 and 1e6 produce.                    *)
(***************************************************************************)
EXTENDS Integers, Sequences, FiniteSets, TLC

----------------------------------------------------------------------------
(* State                                                                   *)

\* token_jt.py
VARIABLES
    token_addresses,  \* main: the addresses read from the spreadsheet
    main_pc,          \* main: "gather" while awaiting the tasks, then "raised"
    pc,               \* per task: "fetch" | "sleep" | "raised" | "cancelled"
    price_history,    \* per task: monitor_token's price_history
    fetched,          \* per task: every price observed so far (line 203), in arrival order
    alerts,           \* per task: number of send_email calls so far
    cycle             \* per task: what the current loop iteration did so far

monitor_vars == <<token_addresses, main_pc, pc, price_history, fetched, alerts, cycle>>

\* token_depth.py (the locals of main, prefixed d_)
VARIABLES
    d_pc,               \* "prompt" | "fetched" | "scored" | "done" | "returned" | "raised"
    d_choice,           \* choice: the menu entry typed in
    d_order_book,       \* order_book: a function from keys to values
    d_liquidity_score,  \* liquidity_score
    d_risk_assessment,  \* risk_assessment
    d_combined_score,   \* combined_score
    d_verdict           \* "buy" (combined_score > 60) | "no_buy" | "none"

oneshot_vars == <<d_pc, d_choice, d_order_book, d_liquidity_score, d_risk_assessment,
                  d_combined_score, d_verdict>>

\* the scoring functions applied on their own
VARIABLES
    s_pc,             \* "input" | "liquidity" | "risk" | "composite"
    s_in,             \* the arguments: a snapshot and a pair of raw scores
    s_liquidity,      \* evaluate_liquidity(snapshot)
    s_risk,           \* assess_risk(snapshot price): the call's result
    s_composite,      \* standardize_score of the two results above
    s_raw_composite   \* standardize_score of the pair of raw scores

score_vars == <<s_pc, s_in, s_liquidity, s_risk, s_composite, s_raw_composite>>

vars == <<monitor_vars, oneshot_vars, score_vars>>

----------------------------------------------------------------------------
(* Rational arithmetic                                                     *)

Abs(x) == IF x < 0 THEN -x ELSE x

RECURSIVE Gcd(_, _)
Gcd(a, b) == IF b = 0 THEN a ELSE Gcd(b, a % b)

\* the rational n/d (d # 0) in lowest terms with a positive denominator
Rat(n, d) ==
    LET g == Gcd(Abs(n), Abs(d))
        s == IF d < 0 THEN -1 ELSE 1
    IN  <<(s * n) \div g, (s * d) \div g>>

Num(n) == <<n, 1>>
RAdd(a, b) == Rat(a[1] * b[2] + b[1] * a[2], a[2] * b[2])
RSub(a, b) == Rat(a[1] * b[2] - b[1] * a[2], a[2] * b[2])
RMul(a, b) == Rat(a[1] * b[1], a[2] * b[2])
\* only used with b # 0; Python raises ZeroDivisionError before dividing
RDiv(a, b) == Rat(a[1] * b[2], a[2] * b[1])
RLt(a, b) == a[1] * b[2] < b[1] * a[2]
RLe(a, b) == a[1] * b[2] <= b[1] * a[2]
RMin(a, b) == IF RLt(b, a) THEN b ELSE a
RMax(a, b) == IF RLt(a, b) THEN b ELSE a
IsZero(a) == a[1] = 0

----------------------------------------------------------------------------
(* Configuration constants of the two programs                             *)

MAX_LIQUIDITY_SCORE == 100
MAX_RISK_SCORE == 50
PRICE_HISTORY_LENGTH == 5
LIQUIDITY_THRESHOLD == 80
\* PRICE_INCREASE_THRESHOLD = 0.1
PRICE_INCREASE_THRESHOLD == Rat(1, 10)
\* the one-shot driver's decision rule: combined_score > 60
BUY_SCORE == 60

\* results of a call: a value, or a raised exception
Ok(v) == [tag |-> "ok", val |-> v]
Raise(e) == [tag |-> "raise", exc |-> e]
\* results of a fetch: None, or the order book
None == [tag |-> "none"]
Fetched(b) == [tag |-> "book", book |-> b]

----------------------------------------------------------------------------
(* Scoring functions (identical in both files)                             *)

\* an order book is a function from the keys it holds to their values
evaluate_liquidity(order_book) ==
    IF "estimatedPriceImpact" \notin DOMAIN order_book
    THEN Ok(Num(0))
    ELSE LET price_impact == order_book["estimatedPriceImpact"]
             denom == RAdd(Num(1), price_impact)
         IN  IF IsZero(denom)
             THEN Raise("ZeroDivisionError")
             ELSE Ok(RMin(RMul(RDiv(Num(1), denom), Num(100)),
                          Num(MAX_LIQUIDITY_SCORE)))

assess_risk(price) ==
    IF RLt(price, Rat(1, 100))
    THEN Num(MAX_RISK_SCORE)
    ELSE IF RLt(price, Num(1))
         THEN RDiv(Num(MAX_RISK_SCORE), Num(2))
         ELSE RDiv(Num(MAX_RISK_SCORE), Num(4))

\* faulty variant: the result is not clamped
standardize_score_Unclamped(liquidity_score, risk_score) ==
    RSub(RMul(RDiv(liquidity_score, Num(MAX_LIQUIDITY_SCORE)), Num(60)),
         RMul(RDiv(risk_score, Num(MAX_RISK_SCORE)), Num(40)))

\* faulty variant: the risk score is scaled by the liquidity maximum
standardize_score_RiskOverLiquidityMax(liquidity_score, risk_score) ==
    LET standardized_score ==
            RSub(RMul(RDiv(liquidity_score, Num(MAX_LIQUIDITY_SCORE)), Num(60)),
                 RMul(RDiv(risk_score, Num(MAX_LIQUIDITY_SCORE)), Num(40)))
    IN  RMax(Num(0), RMin(Num(100), standardized_score))

standardize_score(liquidity_score, risk_score) ==
    LET standardized_score ==
            RSub(RMul(RDiv(liquidity_score, Num(MAX_LIQUIDITY_SCORE)), Num(60)),
                 RMul(RDiv(risk_score, Num(MAX_RISK_SCORE)), Num(40)))
    IN  RMax(Num(0), RMin(Num(100), standardized_score))

----------------------------------------------------------------------------
(* The 0x quote endpoint and fetch_order_book_eth                          *)

\* A response of session.get: the request failed with aiohttp.ClientError,
\* or it carries a status and a JSON body (a function from keys to values).
ClientErrorResponse == [kind |-> "client_error"]
HttpResponse(status, data) == [kind |-> "http", status |-> status, data |-> data]

Quote(sell, buy) == [k \in {"sellAmount", "buyAmount"} |->
                        IF k = "sellAmount" THEN sell ELSE buy]
QuoteWithImpact(sell, buy, impact) ==
    [k \in {"sellAmount", "buyAmount", "estimatedPriceImpact"} |->
        IF k = "sellAmount" THEN sell
        ELSE IF k = "buyAmount" THEN buy ELSE impact]

Book(price, impact) ==
    [k \in {"price", "estimatedPriceImpact"} |->
        IF k = "price" THEN price ELSE impact]

\* fetch_order_book_eth: None, an order book, or an uncaught exception
fetch_order_book_eth(response) ==
    IF response.kind = "client_error"
    THEN None
    ELSE IF response.status # 200
    THEN None
    ELSE LET data == response.data
         IN  IF "sellAmount" \notin DOMAIN data \/ "buyAmount" \notin DOMAIN data
             THEN None
             ELSE LET sell_amount == Num(data["sellAmount"])
                      buy_amount == Num(data["buyAmount"])
                  IN  IF IsZero(sell_amount)
                      THEN Raise("ZeroDivisionError")
                      ELSE Fetched(Book(RDiv(buy_amount, sell_amount),
                                   IF "estimatedPriceImpact" \in DOMAIN data
                                   THEN data["estimatedPriceImpact"]
                                   ELSE Num(0)))

----------------------------------------------------------------------------
(* token_jt.py: monitor_token, send_email and main                         *)

\* bound of the model: successful fetches per token
MaxFetches == 6

\* what the quote endpoint may answer for a token address.  Token "A" sees
\* prices close enough together for a strictly increasing window to stay at
\* or below the 10% threshold (40..44) or to exceed it (40..43, 45), with a
\* price impact that puts the liquidity score at 80 or at 50; the other
\* tokens see a flat market with an occasional zero quote and no impact.
BuyAmounts(t) == IF t = "A" THEN {40, 41, 42, 43, 44, 45} ELSE {0, 1}
Impacts(t) == IF t = "A" THEN {Rat(1, 4), Num(1)} ELSE {}

Responses(t) ==
    {ClientErrorResponse}
        \cup {HttpResponse(500, Quote(1, 1))}
        \cup {HttpResponse(200, [k \in {"sellAmount"} |-> 1])}
        \cup {HttpResponse(200, Quote(0, 1))}
        \cup {HttpResponse(200, Quote(1, b)) : b \in BuyAmounts(t) \cap {0, 1}}
        \cup {HttpResponse(200, QuoteWithImpact(1, b, i)) :
                b \in BuyAmounts(t), i \in Impacts(t)}

\* nothing done yet in this iteration.  delivery is the outcome of the SMTP
\* conversation of this iteration: "none" | "sent" | "failed"
Idle == [outcome |-> "idle", signal |-> FALSE, alert |-> FALSE,
         delivery |-> "none", liquidity |-> Num(0), log |-> <<>>]

\* faulty variant: pop() instead of pop(0), the newest price is dropped
Observe_PopsNewest(history, price) ==
    LET appended == Append(history, price)
    IN  IF Len(appended) > PRICE_HISTORY_LENGTH
        THEN SubSeq(appended, 1, PRICE_HISTORY_LENGTH)
        ELSE appended

\* price_history.append(current_price), then pop(0) beyond the capacity
Observe(history, price) ==
    LET appended == Append(history, price)
    IN  IF Len(appended) > PRICE_HISTORY_LENGTH THEN Tail(appended) ELSE appended

StrictlyIncreasing(history) ==
    \A i \in 1..(Len(history) - 1) : RLt(history[i], history[i + 1])

\* faulty variant: the net gain alone decides, the window need not rise
TrendTest_NetGainOnly(history) ==
    IF Len(history) # PRICE_HISTORY_LENGTH
    THEN Ok([signal |-> FALSE, price_increase |-> Num(0)])
    ELSE IF IsZero(history[1])
    THEN Raise("ZeroDivisionError")
    ELSE LET price_increase ==
                 RDiv(RSub(history[Len(history)], history[1]), history[1])
         IN  Ok([signal |-> RLt(PRICE_INCREASE_THRESHOLD, price_increase),
                 price_increase |-> price_increase])

\* lines 207-209: the trend test on the updated history
TrendTest(history) ==
    IF Len(history) # PRICE_HISTORY_LENGTH
    THEN Ok([signal |-> FALSE, price_increase |-> Num(0)])
    ELSE IF IsZero(history[1])
    THEN Raise("ZeroDivisionError")
    ELSE LET price_increase ==
                 RDiv(RSub(history[Len(history)], history[1]), history[1])
         IN  Ok([signal |-> RLt(PRICE_INCREASE_THRESHOLD, price_increase)
                              /\ StrictlyIncreasing(history),
                 price_increase |-> price_increase])

\* faulty variant: > instead of >= on the liquidity threshold
AlertDue_StrictThreshold(signal, liquidity_score) ==
    signal /\ RLt(Num(LIQUIDITY_THRESHOLD), liquidity_score)

\* line 209-210: the alert is due on a trend signal with enough liquidity
AlertDue(signal, liquidity_score) ==
    signal /\ RLe(Num(LIQUIDITY_THRESHOLD), liquidity_score)

\* faulty variant: no try around the SMTP conversation
send_email_Uncaught(smtp_ok) ==
    IF smtp_ok THEN Ok(<<"info: Email sent successfully">>)
    ELSE Raise("SMTPException")

\* send_email: the SMTP conversation succeeds or raises; either way the
\* exception stays inside the try and one line is logged
send_email(smtp_ok) ==
    IF smtp_ok THEN Ok(<<"info: Email sent successfully">>)
    ELSE Ok(<<"error: Failed to send email">>)

MonitorInit(tokens) ==
    /\ token_addresses = tokens
    /\ main_pc = "gather"
    /\ pc = [t \in tokens |-> "fetch"]
    /\ price_history = [t \in tokens |-> <<>>]
    /\ fetched = [t \in tokens |-> <<>>]
    /\ alerts = [t \in tokens |-> 0]
    /\ cycle = [t \in tokens |-> Idle]

\* faulty variant: the price is recorded before the result is tested
MonitorFetchFailed_RecordsPrice(t) ==
    /\ pc[t] = "fetch"
    /\ \E response \in Responses(t) :
          fetch_order_book_eth(response).tag = "none"
    /\ cycle' = [cycle EXCEPT ![t] =
                    [Idle EXCEPT !.outcome = "fetch_failed",
                                 !.log = <<"error: Failed to fetch order book">>]]
    /\ price_history' = [price_history EXCEPT ![t] = Observe(@, Num(0))]
    /\ pc' = [pc EXCEPT ![t] = "sleep"]
    /\ UNCHANGED <<token_addresses, main_pc, fetched, alerts>>
    /\ UNCHANGED <<oneshot_vars, score_vars>>

\* lines 194-198: the fetch returned None
MonitorFetchFailed(t) ==
    /\ pc[t] = "fetch"
    /\ \E response \in Responses(t) :
          fetch_order_book_eth(response).tag = "none"
    /\ cycle' = [cycle EXCEPT ![t] =
                    [Idle EXCEPT !.outcome = "fetch_failed",
                                 !.log = <<"error: Failed to fetch order book">>]]
    /\ pc' = [pc EXCEPT ![t] = "sleep"]
    /\ UNCHANGED <<token_addresses, main_pc, price_history, fetched, alerts>>
    /\ UNCHANGED <<oneshot_vars, score_vars>>

\* line 194: an exception fetch_order_book_eth does not catch leaves the task
MonitorFetchRaised(t) ==
    /\ pc[t] = "fetch"
    /\ \E response \in Responses(t) :
          fetch_order_book_eth(response).tag = "raise"
    /\ cycle' = [cycle EXCEPT ![t] = [Idle EXCEPT !.outcome = "raised"]]
    /\ pc' = [pc EXCEPT ![t] = "raised"]
    /\ UNCHANGED <<token_addresses, main_pc, price_history, fetched, alerts>>
    /\ UNCHANGED <<oneshot_vars, score_vars>>

\* lines 200-219: one iteration on a fetched order book, up to the sleep
\* (send_email never awaits, so nothing else runs before the sleep)
MonitorCycle(t) ==
    /\ pc[t] = "fetch"
    /\ Len(fetched[t]) < MaxFetches
    /\ \E response \in Responses(t) :
        LET result == fetch_order_book_eth(response)
        IN  /\ result.tag = "book"
            /\ LET order_book == result.book
                   current_price == order_book["price"]
                   liquidity == evaluate_liquidity(order_book)
                   history == Observe(price_history[t], current_price)
                   trend == TrendTest(history)
                   Raised(liq, delivery) ==
                       /\ cycle' = [cycle EXCEPT ![t] =
                             [Idle EXCEPT !.outcome = "raised", !.liquidity = liq,
                                          !.delivery = delivery]]
                       /\ pc' = [pc EXCEPT ![t] = "raised"]
               IN  IF liquidity.tag = "raise"
                   THEN /\ Raised(Num(0), "none")
                        /\ UNCHANGED <<price_history, fetched, alerts>>
                   ELSE /\ price_history' = [price_history EXCEPT ![t] = history]
                        /\ fetched' = [fetched EXCEPT ![t] = Append(@, current_price)]
                        /\ IF trend.tag = "raise"
                           THEN /\ Raised(liquidity.val, "none")
                                /\ UNCHANGED alerts
                           ELSE \E smtp_ok \in BOOLEAN :
                                LET alert == AlertDue(trend.val.signal, liquidity.val)
                                    sent == send_email(smtp_ok)
                                    delivery == IF ~alert THEN "none"
                                                ELSE IF smtp_ok THEN "sent"
                                                ELSE "failed"
                                IN  /\ smtp_ok \/ alert
                                    /\ alerts' = [alerts EXCEPT ![t] =
                                                    IF alert THEN @ + 1 ELSE @]
                                    /\ IF alert /\ sent.tag = "raise"
                                       THEN Raised(liquidity.val, delivery)
                                       ELSE /\ cycle' = [cycle EXCEPT ![t] =
                                                 [outcome |-> "observed",
                                                  signal |-> trend.val.signal,
                                                  alert |-> alert,
                                                  delivery |-> delivery,
                                                  liquidity |-> liquidity.val,
                                                  log |-> (IF alert THEN sent.val ELSE <<>>)
                                                     \o <<"info: Token, Price, Liquidity">>]]
                                            /\ pc' = [pc EXCEPT ![t] = "sleep"]
    /\ UNCHANGED <<token_addresses, main_pc>>
    /\ UNCHANGED <<oneshot_vars, score_vars>>

\* line 197 / 219: asyncio.sleep(CHECK_INTERVAL) is over, the loop starts again
MonitorWake(t) ==
    /\ pc[t] = "sleep"
    /\ pc' = [pc EXCEPT ![t] = "fetch"]
    /\ cycle' = [cycle EXCEPT ![t] = Idle]
    /\ UNCHANGED <<token_addresses, main_pc, price_history, fetched, alerts>>
    /\ UNCHANGED <<oneshot_vars, score_vars>>

\* lines 221-228: gather hands the first exception of a task to main, main
\* leaves the session and asyncio.run cancels every task still running
MainExit ==
    /\ main_pc = "gather"
    /\ \E t \in token_addresses : pc[t] = "raised"
    /\ main_pc' = "raised"
    /\ pc' = [t \in token_addresses |->
                 IF pc[t] \in {"fetch", "sleep"} THEN "cancelled" ELSE pc[t]]
    /\ UNCHANGED <<token_addresses, price_history, fetched, alerts, cycle>>
    /\ UNCHANGED <<oneshot_vars, score_vars>>

MonitorNext ==
    \/ \E t \in token_addresses : MonitorFetchFailed(t)
    \/ \E t \in token_addresses : MonitorFetchRaised(t)
    \/ \E t \in token_addresses : MonitorCycle(t)
    \/ \E t \in token_addresses : MonitorWake(t)
    \/ MainExit

----------------------------------------------------------------------------
(* token_depth.py: the one-shot query (main)                               *)


NoBook == [k \in {} |-> 0]

\* fetch_order_book_btc: None, or the JSON body as it came
fetch_order_book_btc(response) ==
    IF response.kind = "client_error"
    THEN None
    ELSE IF response.status # 200
    THEN None
    ELSE Fetched(response.data)

\* the exchange's order book: bids and asks, no price, no price impact
BtcBody == [k \in {"bids", "asks"} |-> <<>>]
BtcResponses ==
    {ClientErrorResponse, HttpResponse(500, BtcBody), HttpResponse(200, BtcBody)}

EthSellAmounts == {0, 1, 2, 100, 200}
EthBuyAmounts == {-1, 0, 1, 5}
EthImpacts == {Num(-2), Num(-1), Rat(-1, 2), Rat(1, 4), Num(1)}
EthResponses ==
    {ClientErrorResponse}
        \cup {HttpResponse(500, Quote(1, 1))}
        \cup {HttpResponse(200, [k \in {"buyAmount"} |-> 1])}
        \cup {HttpResponse(200, Quote(s, b)) : s \in EthSellAmounts, b \in EthBuyAmounts}
        \cup {HttpResponse(200, QuoteWithImpact(s, b, i)) :
                s \in EthSellAmounts, b \in EthBuyAmounts, i \in EthImpacts}

OneShotInit ==
    /\ d_pc = "prompt"
    /\ d_choice = "none"
    /\ d_order_book = NoBook
    /\ d_liquidity_score = Num(0)
    /\ d_risk_assessment = Num(0)
    /\ d_combined_score = Num(0)
    /\ d_verdict = "none"

OneShotIdle ==
    /\ d_pc = "off"
    /\ d_choice = "none"
    /\ d_order_book = NoBook
    /\ d_liquidity_score = Num(0)
    /\ d_risk_assessment = Num(0)
    /\ d_combined_score = Num(0)
    /\ d_verdict = "none"

\* lines 157-184, choice '1' or '2': the fetch and the test of its result
OneShotFetch ==
    /\ d_pc = "prompt"
    /\ \E c \in {"1", "2"} :
       \E response \in (IF c = "1" THEN BtcResponses ELSE EthResponses) :
        LET result == IF c = "1" THEN fetch_order_book_btc(response)
                      ELSE fetch_order_book_eth(response)
        IN  /\ d_choice' = c
            /\ d_pc' = CASE result.tag = "book" -> "fetched"
                         [] result.tag = "none" -> "returned"
                         [] OTHER -> "raised"
            /\ d_order_book' = IF result.tag = "book" THEN result.book ELSE NoBook
    /\ UNCHANGED <<d_liquidity_score, d_risk_assessment, d_combined_score, d_verdict>>
    /\ UNCHANGED <<monitor_vars, score_vars>>

\* lines 166-182, choice '3': the NFT query leaves order_book unbound, and
\* the test of order_book raises UnboundLocalError
OneShotNft ==
    /\ d_pc = "prompt"
    /\ d_choice' = "3"
    /\ d_pc' = "raised"
    /\ UNCHANGED <<d_order_book, d_liquidity_score, d_risk_assessment, d_combined_score, d_verdict>>
    /\ UNCHANGED <<monitor_vars, score_vars>>

\* lines 178-180: any other choice is logged and main returns
OneShotInvalidChoice ==
    /\ d_pc = "prompt"
    /\ d_choice' = "other"
    /\ d_pc' = "returned"
    /\ UNCHANGED <<d_order_book, d_liquidity_score, d_risk_assessment, d_combined_score, d_verdict>>
    /\ UNCHANGED <<monitor_vars, score_vars>>

\* lines 186-189: the three scores; order_book['price'] raises KeyError on
\* an order book without a price
OneShotScore ==
    /\ d_pc = "fetched"
    /\ LET liquidity == evaluate_liquidity(d_order_book)
       IN  IF liquidity.tag = "raise" \/ "price" \notin DOMAIN d_order_book
           THEN /\ d_pc' = "raised"
                /\ UNCHANGED <<d_liquidity_score, d_risk_assessment, d_combined_score>>
           ELSE /\ d_liquidity_score' = liquidity.val
                /\ d_risk_assessment' = assess_risk(d_order_book["price"])
                /\ d_combined_score' = standardize_score(d_liquidity_score', d_risk_assessment')
                /\ d_pc' = "scored"
    /\ UNCHANGED <<d_choice, d_order_book, d_verdict>>
    /\ UNCHANGED <<monitor_vars, score_vars>>

\* lines 191-199: the report and the decision rule
OneShotReport ==
    /\ d_pc = "scored"
    /\ d_verdict' = IF RLt(Num(BUY_SCORE), d_combined_score) THEN "buy" ELSE "no_buy"
    /\ d_pc' = "done"
    /\ UNCHANGED <<d_choice, d_order_book, d_liquidity_score, d_risk_assessment, d_combined_score>>
    /\ UNCHANGED <<monitor_vars, score_vars>>

OneShotNext ==
    \/ OneShotFetch
    \/ OneShotNft
    \/ OneShotInvalidChoice
    \/ OneShotScore
    \/ OneShotReport

----------------------------------------------------------------------------
(* The scoring functions applied to arbitrary arguments                    *)


PriceOnly(price) == [k \in {"price"} |-> price]

ScorePrices == {Num(-1), Num(0), Rat(1, 200), Rat(1, 100), Rat(1, 2), Num(1), Num(5)}
ScoreImpacts == {Num(-2), Num(-1), Rat(-1, 2), Num(0), Rat(1, 4), Num(1), Num(9)}
RawLiquidityScores == {Num(-50), Num(0), Num(60), Num(100), Num(150), Num(300)}
RawRiskScores == {Num(-75), Num(0), Rat(25, 2), Num(50), Num(100)}
Snapshots == {PriceOnly(p) : p \in ScorePrices}
                 \cup {Book(p, i) : p \in ScorePrices, i \in ScoreImpacts}

ScoreInit ==
    /\ s_pc = "input"
    /\ s_in \in [snapshot : Snapshots,
                 liquidity_score : RawLiquidityScores,
                 risk_score : RawRiskScores]
    /\ s_liquidity = Ok(Num(0))
    /\ s_risk = Ok(Num(0))
    /\ s_composite = Num(0)
    /\ s_raw_composite = Num(0)

ScoreIdle ==
    /\ s_pc = "off"
    /\ s_in = [snapshot |-> NoBook, liquidity_score |-> Num(0), risk_score |-> Num(0)]
    /\ s_liquidity = Ok(Num(0))
    /\ s_risk = Ok(Num(0))
    /\ s_composite = Num(0)
    /\ s_raw_composite = Num(0)

ApplyEvaluateLiquidity ==
    /\ s_pc = "input"
    /\ s_liquidity' = evaluate_liquidity(s_in.snapshot)
    /\ s_pc' = "liquidity"
    /\ UNCHANGED <<s_in, s_risk, s_composite, s_raw_composite>>
    /\ UNCHANGED <<monitor_vars, oneshot_vars>>

ApplyAssessRisk ==
    /\ s_pc = "liquidity"
    /\ s_risk' = Ok(assess_risk(s_in.snapshot["price"]))
    /\ s_pc' = "risk"
    /\ UNCHANGED <<s_in, s_liquidity, s_composite, s_raw_composite>>
    /\ UNCHANGED <<monitor_vars, oneshot_vars>>

ApplyStandardizeScore ==
    /\ s_pc = "risk"
    /\ s_composite' = IF s_liquidity.tag = "ok"
                      THEN standardize_score(s_liquidity.val, s_risk.val)
                      ELSE Num(0)
    /\ s_raw_composite' = standardize_score(s_in.liquidity_score, s_in.risk_score)
    /\ s_pc' = "composite"
    /\ UNCHANGED <<s_in, s_liquidity, s_risk>>
    /\ UNCHANGED <<monitor_vars, oneshot_vars>>

ScoreNext ==
    \/ ApplyEvaluateLiquidity
    \/ ApplyAssessRisk
    \/ ApplyStandardizeScore

----------------------------------------------------------------------------
(* Specifications                                                          *)

\* the monitor started on a spreadsheet holding the one address "A"
Init == MonitorInit({"A"}) /\ OneShotIdle /\ ScoreIdle
Next == MonitorNext
Spec == Init /\ [][Next]_vars

\* the monitor started on a spreadsheet holding the addresses "B" and "C"
InitGather == MonitorInit({"B", "C"}) /\ OneShotIdle /\ ScoreIdle
SpecGather == InitGather /\ [][Next]_vars

\* the one-shot query
InitOneShot == MonitorInit({}) /\ OneShotInit /\ ScoreIdle
NextOneShot == OneShotNext
SpecOneShot == InitOneShot /\ [][NextOneShot]_vars

\* the scoring functions on their own
InitScore == MonitorInit({}) /\ OneShotIdle /\ ScoreInit
NextScore == ScoreNext
SpecScore == InitScore /\ [][NextScore]_vars

----------------------------------------------------------------------------
(* Properties                                                              *)

Min(a, b) == IF a < b THEN a ELSE b
LastN(s, n) == SubSeq(s, Len(s) - n + 1, Len(s))
Between(lo, x, hi) == RLe(Num(lo), x) /\ RLe(x, Num(hi))

\* C1: a cycle whose fetch returns None leaves price_history as it was (no
\* price appended, none evicted), does not raise out of the loop, and goes
\* to the sleep before the next cycle.
C1_FailedFetchKeepsHistory ==
    [][\A t \in token_addresses :
          (cycle[t].outcome # "fetch_failed" /\ cycle'[t].outcome = "fetch_failed")
              => /\ price_history'[t] = price_history[t]
                 /\ fetched'[t] = fetched[t]
                 /\ pc'[t] = "sleep"
                 /\ main_pc' = "gather"]_vars

\* a fetch failed with the window full
C1_Witness ==
    \E t \in token_addresses :
        /\ cycle[t].outcome = "fetch_failed"
        /\ pc[t] = "sleep"
        /\ Len(price_history[t]) = PRICE_HISTORY_LENGTH

\* the window of a task is full, rises strictly, and gains more than 10%
RisingWindow(h) ==
    /\ Len(h) = PRICE_HISTORY_LENGTH
    /\ \A i \in 1..(PRICE_HISTORY_LENGTH - 1) : RLt(h[i], h[i + 1])
    /\ ~IsZero(h[1])
    /\ RLt(Rat(1, 10), RDiv(RSub(h[PRICE_HISTORY_LENGTH], h[1]), h[1]))

\* C2: an observation signals if and only if the history then holds exactly
\* N prices, every consecutive pair rises strictly and (last - first) / first
\* exceeds the threshold; so a filling history never signals, and neither
\* does a window with a net gain above the threshold that does not rise
\* strictly.
C2_SignalIffRisingWindow ==
    \A t \in token_addresses :
        cycle[t].outcome = "observed"
            => (cycle[t].signal <=> RisingWindow(price_history[t]))

\* a signal on a window that has already evicted a price
C2_Witness ==
    \E t \in token_addresses :
        /\ cycle[t].outcome = "observed"
        /\ cycle[t].signal
        /\ Len(fetched[t]) > PRICE_HISTORY_LENGTH

\* C3: the history never holds more than N prices and is the last min(k, N)
\* fetched prices in arrival order, k the number of successful fetches; the
\* (N+1)-th observation drops the oldest.
C3_HistoryIsLastFetched ==
    \A t \in token_addresses :
        /\ Len(price_history[t]) <= PRICE_HISTORY_LENGTH
        /\ price_history[t] =
              LastN(fetched[t], Min(Len(fetched[t]), PRICE_HISTORY_LENGTH))

\* N+1 prices fetched, the first two different: the oldest is the one gone
C3_Witness ==
    \E t \in token_addresses :
        /\ Len(fetched[t]) = PRICE_HISTORY_LENGTH + 1
        /\ fetched[t][1] # fetched[t][2]
        /\ fetched[t][PRICE_HISTORY_LENGTH] # fetched[t][PRICE_HISTORY_LENGTH + 1]
        /\ price_history[t] = Tail(fetched[t])

EmailLines(log) ==
    Cardinality({i \in 1..Len(log) :
        log[i] \in {"info: Email sent successfully", "error: Failed to send email"}})

\* C4: a cycle sends an alert if and only if its window signals and its
\* liquidity score is at least the liquidity threshold, and sends at most
\* one; so the alerts never outnumber the full windows seen, and the fifth
\* fetch, completing the first window, leaves exactly one alert when that
\* window signals with enough liquidity and none otherwise.
C4_AlertIffSignalAndLiquidity ==
    \A t \in token_addresses :
        LET due == RisingWindow(price_history[t])
                      /\ RLe(Num(80), cycle[t].liquidity)
            full_windows == IF Len(fetched[t]) < PRICE_HISTORY_LENGTH THEN 0
                            ELSE Len(fetched[t]) - PRICE_HISTORY_LENGTH + 1
        IN  /\ cycle[t].outcome = "observed"
                => /\ cycle[t].alert <=> due
                   /\ EmailLines(cycle[t].log) = IF due THEN 1 ELSE 0
            /\ alerts[t] <= full_windows
            /\ (cycle[t].outcome = "observed" /\ Len(fetched[t]) = PRICE_HISTORY_LENGTH)
                => alerts[t] = IF due THEN 1 ELSE 0

\* the fifth fetch completes a signalling window at liquidity exactly 80
C4_Witness ==
    \E t \in token_addresses :
        /\ cycle[t].outcome = "observed"
        /\ Len(fetched[t]) = PRICE_HISTORY_LENGTH
        /\ cycle[t].alert
        /\ cycle[t].liquidity = Num(80)
        /\ alerts[t] = 1

\* C5: with the history full and its oldest price 0, the trend evaluation
\* gives no signal and does not raise: the cycle completes.
C5_ZeroOldestPriceGivesNoSignal ==
    \A t \in token_addresses :
        (Len(price_history[t]) = PRICE_HISTORY_LENGTH /\ IsZero(price_history[t][1]))
            => /\ pc[t] # "raised"
               /\ ~cycle[t].signal

\* C6: a task stops only by its own error: no fetch failure, error or slow
\* response of another task ends it.
C6_TasksIndependent ==
    \A t \in token_addresses : pc[t] \in {"fetch", "sleep", "raised"}

\* C7: when the alert is due and the delivery fails, the failure is logged,
\* the same cycle still logs its observation record and goes to the sleep,
\* main keeps waiting, and the history is the fetched prices as always.
C7_DeliveryFailureDoesNotStop ==
    \A t \in token_addresses :
        cycle[t].delivery = "failed"
            => /\ pc[t] = "sleep"
               /\ main_pc = "gather"
               /\ cycle[t].log = <<"error: Failed to send email",
                                   "info: Token, Price, Liquidity">>
               /\ price_history[t] =
                     LastN(fetched[t], Min(Len(fetched[t]), PRICE_HISTORY_LENGTH))
               /\ ENABLED MonitorWake(t)

\* a delivery failed on a window that has already evicted a price
C7_Witness ==
    \E t \in token_addresses :
        /\ cycle[t].delivery = "failed"
        /\ cycle[t].alert
        /\ Len(fetched[t]) > PRICE_HISTORY_LENGTH

ValidSnapshot(snapshot) ==
    /\ RLt(Num(0), snapshot["price"])
    /\ "estimatedPriceImpact" \in DOMAIN snapshot
          => RLe(Num(0), snapshot["estimatedPriceImpact"])

\* C8: on a valid snapshot (price > 0, price impact absent or >= 0)
\* evaluate_liquidity is within [0, 100], assess_risk within [0, 50] and
\* standardize_score of the two within [0, 100]; standardize_score of any
\* pair of scores is within [0, 100].
C8_ScoresWithinRanges ==
    /\ (s_pc \in {"liquidity", "risk", "composite"} /\ ValidSnapshot(s_in.snapshot))
          => /\ s_liquidity.tag = "ok"
             /\ Between(0, s_liquidity.val, 100)
    /\ (s_pc \in {"risk", "composite"} /\ ValidSnapshot(s_in.snapshot))
          => /\ s_risk.tag = "ok"
             /\ Between(0, s_risk.val, 50)
    /\ (s_pc = "composite" /\ ValidSnapshot(s_in.snapshot))
          => Between(0, s_composite, 100)
    /\ s_pc = "composite" => Between(0, s_raw_composite, 100)

\* a valid snapshot beside raw scores far out of range, clamped to 100
C8_Witness ==
    /\ s_pc = "composite"
    /\ ValidSnapshot(s_in.snapshot)
    /\ RLt(Num(100), s_in.liquidity_score)
    /\ RLt(s_in.risk_score, Num(0))
    /\ s_raw_composite = Num(100)
    /\ RLt(Num(0), s_composite)

\* C9: assess_risk fails for every price <= 0 and returns no score for it;
\* for a price > 0 it returns 50 below 0.01, 25 from 0.01 to below 1, and
\* 12.5 from 1 on.
C9_AssessRiskRejectsNonPositivePrice ==
    s_pc \in {"risk", "composite"}
        => LET price == s_in.snapshot["price"]
           IN  IF RLe(price, Num(0))
               THEN s_risk.tag = "raise"
               ELSE /\ s_risk.tag = "ok"
                    /\ s_risk.val = IF RLt(price, Rat(1, 100)) THEN Num(50)
                                    ELSE IF RLt(price, Num(1)) THEN Rat(25, 1)
                                    ELSE Rat(25, 2)

\* C10: the combined score of the one-shot query never exceeds 50, so the
\* rule combined_score > 60 never holds and the verdict is never "buy".
C10_NeverFavorable ==
    d_pc \in {"scored", "done"}
        => /\ RLe(d_combined_score, Num(50))
           /\ d_verdict # "buy"

\* the best case: liquidity 100 at the lowest risk tier gives exactly 50
C10_Witness ==
    /\ d_pc = "done"
    /\ d_liquidity_score = Num(100)
    /\ d_risk_assessment = Rat(25, 2)
    /\ d_combined_score = Num(50)
    /\ d_verdict = "no_buy"

====
